---- MODULE Spec2Model ----
(***************************************************************************)
(* State-machine model of the lcubed scanner (src/src/scanner.rs) and its  *)
(* token type (src/src/token.rs).                                          *)
(*                                                                         *)
(* A source text is a sequence of codepoints.  A codepoint is a string     *)
(* naming one character; its UTF-8 width is Width(c).  Byte offsets are    *)
(* computed from the widths, so that the difference between a codepoint    *)
(* index and a byte offset is visible to every check.                      *)
(***************************************************************************)
EXTENDS Integers, Sequences, FiniteSets, TLC

\* ------------------------------------------------------------------ bounds
\* Longest source text, in codepoints.
MaxLen == 4
\* Most calls of Scanner::scan made on one scanner: enough to scan every
\* token of a text and to call scan again after the end.
MaxCalls == MaxLen + 2
\* Longest body of a string literal (the codepoints after its opening quote),
\* for the texts that are one string literal.
MaxBody == 7
\* Most calls of Scanner::token made between two scans.
MaxReads == 2

\* -------------------------------------------------------------- codepoints
None == "None"

\* Codepoints outside ASCII, named by their code.
NBSP == "U+00A0"
EACUTE == "U+00E9"
EMSP == "U+2003"

LowerCase ==
  {"a","b","c","d","e","f","g","h","i","j","k","l","m",
   "n","o","p","q","r","s","t","u","v","w","x","y","z"}
UpperCase ==
  {"A","B","C","D","E","F","G","H","I","J","K","L","M",
   "N","O","P","Q","R","S","T","U","V","W","X","Y","Z"}
Digits == {"0","1","2","3","4","5","6","7","8","9"}

\* char::len_utf8
Width(c) ==
  IF c \in {NBSP, EACUTE} THEN 2
  ELSE IF c = EMSP THEN 3
  ELSE 1

\* char::is_whitespace (Unicode White_Space), on the codepoints of the model.
IsWhitespace(c) == c \in {" ", "\t", "\n", "\r", NBSP, EMSP}

\* 'a'..='z' | 'A'..='Z' | '_'
IsIdentStart(c) == c \in LowerCase \cup UpperCase \cup {"_"}
\* 'a'..='z' | 'A'..='Z' | '_' | '0'..='9'
IsIdentPart(c) == c \in LowerCase \cup UpperCase \cup {"_"} \cup Digits
\* '0'..='9'
IsDigit(c) == c \in Digits
\* The number characters without the separator: '0'..='9'
IsNumberPart_digits_only(c) == c \in Digits
\* '0'..='9' | '_'
IsNumberPart(c) == c \in Digits \cup {"_"}

\* ------------------------------------------------------------ str (UTF-8)
RECURSIVE ByteLen(_)
\* str::len: the length of a text in bytes.
ByteLen(str) ==
  IF str = <<>> THEN 0 ELSE Width(Head(str)) + ByteLen(Tail(str))

\* Byte offset of the codepoint after the first n codepoints of str.
OffsetOf(str, n) == ByteLen(SubSeq(str, 1, n))

\* str::is_char_boundary
IsCharBoundary(str, k) == \E n \in 0..Len(str) : OffsetOf(str, n) = k

\* Number of codepoints before byte offset k (k a char boundary).
IndexOf(str, k) == CHOOSE n \in 0..Len(str) : OffsetOf(str, n) = k

\* &str[a..b] returns a value exactly when this holds, and panics otherwise.
CanSlice(str, a, b) ==
  a <= b /\ IsCharBoundary(str, a) /\ IsCharBoundary(str, b)

\* &str[a..b]
Slice(str, a, b) == SubSeq(str, IndexOf(str, a) + 1, IndexOf(str, b))

\* ------------------------------------------------------------- token.rs
\* TokenKind
Eof == [tag |-> "Eof", arg |-> None]
Identifier == [tag |-> "Identifier", arg |-> None]
Number == [tag |-> "Number", arg |-> None]
String == [tag |-> "String", arg |-> None]
Symbol(sym) == [tag |-> "Symbol", arg |-> sym]
Keyword(kw) == [tag |-> "Keyword", arg |-> kw]

\* Cow<'src, str>: a borrowed slice of the source or an owned buffer.
Borrowed(str) == [owned |-> FALSE, str |-> str]
Owned(str) == [owned |-> TRUE, str |-> str]

\* Token::new
TokenNew(kind) ==
  [kind |-> kind, start |-> 0, end |-> 0, raw_text |-> <<>>,
   text |-> Borrowed(<<>>)]

\* ----------------------------------------------------------- ScanError
NoError == [type |-> None, offset |-> 0, unexpected |-> None, string_start |-> 0]
UnexpectedCharacter(offset, ch) ==
  [type |-> "UnexpectedCharacter", offset |-> offset, unexpected |-> ch,
   string_start |-> 0]
\* The error that reports the offset of the backslash instead.
UnexpectedCharacterInEscapeSequence_at_backslash(offset, ch) ==
  [type |-> "UnexpectedCharacterInEscapeSequence", offset |-> offset - 1,
   unexpected |-> ch, string_start |-> 0]
UnexpectedCharacterInEscapeSequence(offset, ch) ==
  [type |-> "UnexpectedCharacterInEscapeSequence", offset |-> offset,
   unexpected |-> ch, string_start |-> 0]
UnexpectedEndOfInputInString(offset, string_start) ==
  [type |-> "UnexpectedEndOfInputInString", offset |-> offset,
   unexpected |-> None, string_start |-> string_start]
UnexpectedEndOfInputInEscapeSequence(offset) ==
  [type |-> "UnexpectedEndOfInputInEscapeSequence", offset |-> offset,
   unexpected |-> None, string_start |-> 0]

\* ------------------------------------------------------------- Scanner
\* A scanner value s is the struct Scanner plus the outcome of the function
\* that produced it: s.res is "Ok", "Err" (with s.err) or "Panic".
\* s.chars is the CharIndices iterator: the number of codepoints it has
\* yielded.

\* The struct literal of Scanner::new.
ScannerLiteral(text) ==
  [input |-> text, chars |-> 0, last_char |-> None, current_char |-> None,
   position |-> 0, token |-> TokenNew(Eof), res |-> "Ok", err |-> NoError]

Fail(s, e) == [s EXCEPT !.res = "Err", !.err = e]
Panic(s) == [s EXCEPT !.res = "Panic"]

\* Scanner::scan_char
scan_char(s) ==
  IF s.chars < Len(s.input)
  THEN [s EXCEPT !.last_char = s.current_char,
                 !.current_char = s.input[s.chars + 1],
                 !.position = OffsetOf(s.input, s.chars),
                 !.chars = s.chars + 1]
  ELSE [s EXCEPT !.position =
                    s.position +
                    (IF s.last_char = None THEN 1 ELSE Width(s.last_char)),
                 !.current_char = None]

RECURSIVE skip_whitespace_do_while(_)
\* skip_whitespace as a do-while loop: it advances before it tests.
skip_whitespace_do_while(s) ==
  LET s1 == scan_char(s)
  IN IF s1.current_char # None /\ IsWhitespace(s1.current_char)
     THEN skip_whitespace_do_while(s1)
     ELSE s1

RECURSIVE skip_whitespace(_)
\* Scanner::skip_whitespace
skip_whitespace(s) ==
  IF s.current_char # None /\ IsWhitespace(s.current_char)
  THEN skip_whitespace(scan_char(s))
  ELSE s

\* finish_token, slicing by codepoint index instead of byte offset.
finish_token_by_index(s, kind) ==
  LET t == [s.token EXCEPT !.kind = kind, !.end = s.position]
  IN IF t.start <= t.end /\ t.end <= Len(s.input)
     THEN LET raw == SubSeq(s.input, t.start + 1, t.end)
          IN [s EXCEPT !.token = [t EXCEPT !.raw_text = raw,
                                           !.text = Borrowed(raw)]]
     ELSE Panic([s EXCEPT !.token = t])

\* Scanner::finish_token
finish_token(s, kind) ==
  LET t == [s.token EXCEPT !.kind = kind, !.end = s.position]
  IN IF CanSlice(s.input, t.start, t.end)
     THEN LET raw == Slice(s.input, t.start, t.end)
          IN [s EXCEPT !.token = [t EXCEPT !.raw_text = raw,
                                           !.text = Borrowed(raw)]]
     ELSE Panic([s EXCEPT !.token = t])

\* The keyword table of scan_identifier_or_keyword.
KeywordOf(raw) ==
  IF raw = <<"i","f">> THEN "If"
  ELSE IF raw = <<"e","l","s","e">> THEN "Else"
  ELSE IF raw = <<"e","n","d">> THEN "End"
  ELSE IF raw = <<"f","u","n">> THEN "Fun"
  ELSE None

\* The closure `finish` of scan_identifier_or_keyword.
finish(s) ==
  LET r == finish_token(s, Identifier)
  IN IF r.res = "Ok" /\ KeywordOf(r.token.raw_text) # None
     THEN [r EXCEPT !.token.kind = Keyword(KeywordOf(r.token.raw_text))]
     ELSE r

RECURSIVE identifier_loop(_)
\* The while loop of scan_identifier_or_keyword and the statement after it.
identifier_loop(s) ==
  IF s.current_char # None
  THEN IF IsIdentPart(s.current_char)
       THEN identifier_loop(scan_char(s))
       ELSE finish(s)
  ELSE finish_token(s, Identifier)

\* Scanner::scan_identifier_or_keyword
scan_identifier_or_keyword(s) == identifier_loop(scan_char(s))

\* cleanup_number without the filter: the decoded text is the raw text.
cleanup_number_unfiltered(token) ==
  [token EXCEPT !.text = Owned(token.raw_text)]

\* cleanup_number: keeps the characters '0'..='9' of the raw text.
cleanup_number(token) ==
  [token EXCEPT !.text = Owned(SelectSeq(token.raw_text, IsDigit))]

\* Scanner::finish_token_with, with cleanup_number as the modifier.
finish_token_with(s, kind) ==
  LET r == finish_token(s, kind)
  IN IF r.res = "Ok" THEN [r EXCEPT !.token = cleanup_number(r.token)] ELSE r

RECURSIVE number_loop(_)
\* The while loop of scan_number and the statement after it.
number_loop(s) ==
  IF s.current_char # None /\ IsNumberPart(s.current_char)
  THEN number_loop(scan_char(s))
  ELSE finish_token_with(s, Number)

\* Scanner::scan_number
scan_number(s) == number_loop(scan_char(s))

\* single_symbol that reads one more codepoint after the token is finished.
single_symbol_reading_on(s, symbol) ==
  LET r == finish_token(scan_char(s), Symbol(symbol))
  IN IF r.res = "Ok" THEN scan_char(r) ELSE r

\* Scanner::single_symbol
single_symbol(s, symbol) == finish_token(scan_char(s), Symbol(symbol))

\* maybe_double_symbol that emits the double symbol without consuming its
\* second character.
maybe_double_symbol_unconsumed(s, expected, single, double) ==
  LET s1 == scan_char(s)
  IN IF s1.current_char # None /\ s1.current_char = expected
     THEN finish_token(s1, Symbol(double))
     ELSE finish_token(s1, Symbol(single))

\* Scanner::maybe_double_symbol
maybe_double_symbol(s, expected, single, double) ==
  LET s1 == scan_char(s)
  IN IF s1.current_char # None /\ s1.current_char = expected
     THEN single_symbol(s1, double)
     ELSE finish_token(s1, Symbol(single))

\* Scanner::current_text is &input[token.start..position]: it returns a
\* value exactly when CanCurrentText holds, and panics otherwise.
CanCurrentText(s) == CanSlice(s.input, s.token.start, s.position)
current_text(s) == Slice(s.input, s.token.start, s.position)

\* Option<String>
NoString == [some |-> FALSE, str |-> <<>>]
SomeString(str) == [some |-> TRUE, str |-> str]

\* The characters accepted after a backslash: "nrt\\\"'".contains(ch)
IsEscape(ch) == ch \in {"n", "r", "t", "\\", "\"", "'"}

\* The escape table with 'n' and 'r' exchanged.
Unescape_swapped(ch) ==
  CASE ch = "n" -> "\r"
    [] ch = "r" -> "\n"
    [] ch = "t" -> "\t"
    [] ch = "\\" -> "\\"
    [] ch = "\"" -> "\""
    [] ch = "'" -> "'"

\* The character an escape sequence pushes onto the owned buffer.
Unescape(ch) ==
  CASE ch = "n" -> "\n"
    [] ch = "r" -> "\r"
    [] ch = "t" -> "\t"
    [] ch = "\\" -> "\\"
    [] ch = "\"" -> "\""
    [] ch = "'" -> "'"

\* The trim that drops the first character only: &ct[1..]
TrimFront(ct) == Slice(ct, 1, ByteLen(ct))

\* &ct[1..ct.len() - 1]
CanTrim(ct) == CanSlice(ct, 1, ByteLen(ct) - 1)
Trim(ct) == Slice(ct, 1, ByteLen(ct) - 1)

\* The '"' arm of scan_string: the closing quote.
string_close(s, clean_string) ==
  LET s1 == scan_char(s)
  IN IF clean_string.some
     THEN LET r == finish_token(s1, String)
          IN IF r.res = "Ok"
             THEN [r EXCEPT !.token.text = Owned(clean_string.str)]
             ELSE r
     ELSE IF ~CanCurrentText(s1) THEN Panic(s1)
     ELSE IF ~CanTrim(current_text(s1)) THEN Panic(s1)
     ELSE LET r == finish_token(s1, String)
          IN IF r.res = "Ok"
             THEN [r EXCEPT !.token.text = Borrowed(Trim(current_text(s1)))]
             ELSE r

RECURSIVE string_loop(_, _)
\* The while loop of scan_string and the statement after it.
string_loop(s, clean_string) ==
  IF s.current_char = None
  THEN Fail(s, UnexpectedEndOfInputInString(s.position, s.token.start))
  ELSE IF s.current_char = "\"" THEN string_close(s, clean_string)
  ELSE IF s.current_char = "\\"
  THEN LET s1 == scan_char(s)
           ch == s1.current_char
       IN IF ch # None /\ IsEscape(ch)
          THEN IF clean_string.some
               THEN string_loop(scan_char(s1),
                                SomeString(Append(clean_string.str, Unescape(ch))))
               ELSE IF ~CanCurrentText(s1) THEN Panic(s1)
               ELSE IF ~CanTrim(current_text(s1)) THEN Panic(s1)
               ELSE string_loop(scan_char(s1),
                                SomeString(Append(Trim(current_text(s1)),
                                                  Unescape(ch))))
          ELSE IF ch # None
          THEN Fail(s1, UnexpectedCharacterInEscapeSequence(s1.position, ch))
          ELSE Fail(s1, UnexpectedEndOfInputInEscapeSequence(s1.position))
  ELSE string_loop(scan_char(s),
                   IF clean_string.some
                   THEN SomeString(Append(clean_string.str, s.current_char))
                   ELSE clean_string)

\* Scanner::scan_string
scan_string(s) == string_loop(scan_char(s), NoString)

\* The buffer that is rebuilt from the source text at every escape.
clean_string_take_recopy(s, clean_string) == Trim(current_text(s))

\* match clean_string.take(): the owned buffer an escape pushes onto, a copy
\* of the text between the opening quote and the backslash when there is none.
clean_string_take(s, clean_string) ==
  IF clean_string.some THEN clean_string.str ELSE Trim(current_text(s))

\* One iteration of the while loop of scan_string (the statement after the
\* loop when the lookahead is None): the scanner, the local clean_string and
\* whether the loop goes on.
string_iteration(s, clean_string) ==
  IF s.current_char = None
  THEN [s |-> Fail(s, UnexpectedEndOfInputInString(s.position, s.token.start)),
        clean_string |-> clean_string, running |-> FALSE]
  ELSE IF s.current_char = "\""
  THEN [s |-> string_close(s, clean_string), clean_string |-> NoString,
        running |-> FALSE]
  ELSE IF s.current_char = "\\"
  THEN LET s1 == scan_char(s)
           ch == s1.current_char
       IN IF ch # None /\ IsEscape(ch)
          THEN IF /\ ~clean_string.some
                  /\ (~CanCurrentText(s1) \/ ~CanTrim(current_text(s1)))
               THEN [s |-> Panic(s1), clean_string |-> clean_string,
                     running |-> FALSE]
               ELSE [s |-> scan_char(s1),
                     clean_string |->
                       SomeString(Append(clean_string_take(s1, clean_string),
                                         Unescape(ch))),
                     running |-> TRUE]
          ELSE IF ch # None
          THEN [s |-> Fail(s1, UnexpectedCharacterInEscapeSequence(s1.position, ch)),
                clean_string |-> clean_string, running |-> FALSE]
          ELSE [s |-> Fail(s1, UnexpectedEndOfInputInEscapeSequence(s1.position)),
                clean_string |-> clean_string, running |-> FALSE]
  ELSE [s |-> scan_char(s),
        clean_string |->
          IF clean_string.some
          THEN SomeString(Append(clean_string.str, s.current_char))
          ELSE clean_string,
        running |-> TRUE]

RECURSIVE skip_line_comment_to_end(_)
\* skip_line_comment without the test for '\n': the comment runs to the end
\* of input.
skip_line_comment_to_end(s) ==
  IF s.current_char = None THEN s
  ELSE skip_line_comment_to_end(scan_char(s))

RECURSIVE skip_line_comment(_)
\* Scanner::skip_line_comment
skip_line_comment(s) ==
  IF s.current_char = None THEN s
  ELSE IF s.current_char = "\n" THEN scan_char(s)
  ELSE skip_line_comment(scan_char(s))

\* The match whose last arm consumes the character it rejects.
dispatch_consuming(s, ch) ==
  IF IsIdentStart(ch) THEN scan_identifier_or_keyword(s)
  ELSE IF IsDigit(ch) THEN scan_number(s)
  ELSE IF ch = ":" THEN maybe_double_symbol(s, ":", "Colon", "DoubleColon")
  ELSE IF ch = "=" THEN maybe_double_symbol(s, "=", "Eq", "EqEq")
  ELSE IF ch = ";" THEN single_symbol(s, "Semicolon")
  ELSE IF ch = "," THEN single_symbol(s, "Comma")
  ELSE IF ch = "." THEN single_symbol(s, "Dot")
  ELSE IF ch = "+" THEN single_symbol(s, "Plus")
  ELSE IF ch = "*" THEN single_symbol(s, "Star")
  ELSE IF ch = "-" THEN maybe_double_symbol(s, ">", "Minus", "Arrow")
  ELSE IF ch = "\\" THEN single_symbol(s, "Backslash")
  ELSE IF ch = "\"" THEN scan_string(s)
  ELSE Fail(scan_char(s), UnexpectedCharacter(s.position, ch))

\* The match of Scanner::scan on a lookahead character other than '/'.
dispatch(s, ch) ==
  IF IsIdentStart(ch) THEN scan_identifier_or_keyword(s)
  ELSE IF IsDigit(ch) THEN scan_number(s)
  ELSE IF ch = ":" THEN maybe_double_symbol(s, ":", "Colon", "DoubleColon")
  ELSE IF ch = "=" THEN maybe_double_symbol(s, "=", "Eq", "EqEq")
  ELSE IF ch = ";" THEN single_symbol(s, "Semicolon")
  ELSE IF ch = "," THEN single_symbol(s, "Comma")
  ELSE IF ch = "." THEN single_symbol(s, "Dot")
  ELSE IF ch = "+" THEN single_symbol(s, "Plus")
  ELSE IF ch = "*" THEN single_symbol(s, "Star")
  ELSE IF ch = "-" THEN maybe_double_symbol(s, ">", "Minus", "Arrow")
  ELSE IF ch = "\\" THEN single_symbol(s, "Backslash")
  ELSE IF ch = "\"" THEN scan_string(s)
  ELSE Fail(s, UnexpectedCharacter(s.position, ch))

\* One pass of the loop of Scanner::scan up to the match: skip_whitespace,
\* then token.start = position.
scan_start(s) ==
  LET s1 == skip_whitespace(s)
  IN [s1 EXCEPT !.token.start = s1.position]

\* The scan that knows no comments: every '/' is a Slash symbol.
scan_no_comment(s) ==
  LET s2 == scan_start(s)
  IN IF s2.current_char = None THEN finish_token(s2, Eof)
     ELSE IF s2.current_char = "/"
     THEN finish_token(scan_char(s2), Symbol("Slash"))
     ELSE dispatch(s2, s2.current_char)

RECURSIVE scan(_)
\* Scanner::scan
scan(s) ==
  LET s2 == scan_start(s)
  IN IF s2.current_char = None THEN finish_token(s2, Eof)
     ELSE IF s2.current_char = "/"
     THEN LET s3 == scan_char(s2)
          IN IF s3.current_char = "/"
             THEN scan(skip_line_comment(s3))
             ELSE finish_token(s3, Symbol("Slash"))
     ELSE dispatch(s2, s2.current_char)

\* The constructor that reads the first codepoint and scans no token.
new_without_scan(text) == scan_char(ScannerLiteral(text))

\* Scanner::new
new(text) == scan(scan_char(ScannerLiteral(text)))

\* The accessor that advances to the next token before it returns.
token_advancing(s) ==
  LET r == scan(s) IN [scanner |-> r, result |-> r.token]

\* Scanner::token: the scanner after the call and the token it returns.
token(s) == [scanner |-> s, result |-> s.token]

\* --------------------------------------------------------- source texts
\* The source texts of the model: every text of at most MaxLen codepoints
\* over one of these sets of codepoints.
WhitespaceAlphabet == {" ", "\n", NBSP, EMSP, "/", "x"}
KeywordAlphabet == {"i", "f", "u", "n", " ", "1"}
ElseEndAlphabet == {"e", "l", "s", "n", "d", " "}
SymbolAlphabet == {":", "=", "-", ">", ";", "/", " "}
NumberAlphabet == {"1", "7", "_", "x", " ", "."}
StringAlphabet == {"\"", "\\", "n", "x", EACUTE, " "}
MixedAlphabet == {" ", "x", "1", "\"", ">", NBSP}

Alphabets ==
  {WhitespaceAlphabet, KeywordAlphabet, ElseEndAlphabet, SymbolAlphabet,
   NumberAlphabet, StringAlphabet, MixedAlphabet}

\* Every text of exactly n codepoints of the set cs.
TextsOf(cs, n) == [1..n -> cs]

\* The codepoints of the bodies of the texts that are one string literal.
BodyAlphabet == {"\\", "n", "\"", EACUTE}

\* ----------------------------------------------------------- the caller
\* scanner: the Scanner (with the outcome of the last call made on it);
\* pc: "start" before Scanner::new, "ready" while the caller holds a scanner,
\*     "failed" when Scanner::new returned an error (no scanner exists),
\*     "aborted" when a call panicked;
\* calls: the number of calls of Scanner::scan made;
\* before: the scanner as it was when the last call of new or scan was made;
\* reads: the number of calls of Scanner::token made since the last scan;
\* observed: the token the last of them returned (the borrow ends at the
\*     next scan);
\* clean_string: the local of scan_string while pc is "in_string" (the
\*     call is inside the while loop of scan_string);
\* copies: the number of times the string scan in progress, or the last one,
\*     built an owned buffer from the source text.
VARIABLES scanner, pc, calls, before, reads, observed, clean_string, copies
vars == <<scanner, pc, calls, before, reads, observed, clean_string, copies>>

\* The caller before Scanner::new, holding the text.
Start(text) ==
  /\ scanner = ScannerLiteral(text)
  /\ pc = "start"
  /\ calls = 0
  /\ before = scanner
  /\ reads = 0
  /\ observed = TokenNew(Eof)
  /\ clean_string = NoString
  /\ copies = 0

Init ==
  \E cs \in Alphabets : \E n \in 0..MaxLen : \E text \in TextsOf(cs, n) :
    Start(text)

\* Where the caller stands after a call that left the scanner r.
After(r) ==
  IF r.res = "Panic" THEN "aborted" ELSE "ready"

\* let scanner = Scanner::new(input)?
New ==
  /\ pc = "start"
  /\ LET r == new(scanner.input)
     IN /\ scanner' = r
        /\ pc' = IF r.res = "Ok" THEN "ready"
                 ELSE IF r.res = "Err" THEN "failed" ELSE "aborted"
  /\ before' = scanner
  /\ UNCHANGED <<calls, reads, observed, clean_string, copies>>

\* scanner.scan()
Scan ==
  /\ pc = "ready"
  /\ calls < MaxCalls
  /\ LET r == scan([scanner EXCEPT !.res = "Ok", !.err = NoError])
     IN /\ scanner' = r
        /\ pc' = After(r)
  /\ before' = scanner
  /\ calls' = calls + 1
  /\ reads' = 0
  /\ observed' = TokenNew(Eof)
  /\ UNCHANGED <<clean_string, copies>>

\* scanner.token()
Token ==
  /\ pc = "ready"
  /\ reads < MaxReads
  /\ LET r == token(scanner)
     IN /\ scanner' = r.scanner
        /\ observed' = r.result
  /\ reads' = reads + 1
  /\ UNCHANGED <<pc, calls, before, clean_string, copies>>

Next == New \/ Scan

Spec == Init /\ [][Next]_vars

\* The texts that are one string literal: an opening quote and a body.
InitString ==
  \E n \in 0..MaxBody : \E body \in TextsOf(BodyAlphabet, n) :
    Start(<<"\"">> \o body)

SpecString == InitString /\ [][Next]_vars

\* The caller that also reads the current token.
InitToken ==
  \E n \in 0..MaxLen : \E text \in TextsOf(MixedAlphabet, n) : Start(text)

NextToken == New \/ Scan \/ Token

SpecToken == InitToken /\ [][NextToken]_vars

\* The caller has the Eof token or a ScanError in hand.
Finished ==
  \/ pc = "failed"
  \/ pc = "ready" /\ scanner.res = "Err"
  \/ pc = "ready" /\ scanner.res = "Ok" /\ scanner.token.kind = Eof

\* The loop of test::run: scanner.scan()? is called again until the current
\* token is Eof or a call returned an error.
RunScan == ~Finished /\ Scan

NextRun == New \/ RunScan

SpecRun == Init /\ [][NextRun]_vars

\* Scanner::new on a text whose first token is a string literal, one
\* iteration of the loop of scan_string at a time.
MaxStepBody == MaxBody - 1

InitScanString ==
  \E n \in 0..MaxStepBody : \E body \in TextsOf(BodyAlphabet, n) :
    Start(<<"\"">> \o body)

\* Scanner::new up to the while loop of scan_string: the first codepoint is
\* read, the skip phase ends at a double quote, token.start is set, and
\* scan_string reads the codepoint after the quote.
EnterString ==
  /\ pc = "start"
  /\ LET s2 == scan_start(scan_char(ScannerLiteral(scanner.input)))
     IN /\ s2.current_char = "\""
        /\ scanner' = scan_char(s2)
  /\ pc' = "in_string"
  /\ before' = scanner
  /\ clean_string' = NoString
  /\ copies' = 0
  /\ UNCHANGED <<calls, reads, observed>>

\* One iteration of the while loop of scan_string; when the loop ends,
\* Scanner::new returns what scan_string returned.
StringStep ==
  /\ pc = "in_string"
  /\ LET r == string_iteration(scanner, clean_string)
     IN /\ scanner' = r.s
        /\ clean_string' = r.clean_string
        /\ copies' = IF r.clean_string.some /\ ~clean_string.some
                     THEN copies + 1 ELSE copies
        /\ pc' = IF r.running THEN "in_string"
                 ELSE IF r.s.res = "Ok" THEN "ready"
                 ELSE IF r.s.res = "Err" THEN "failed" ELSE "aborted"
  /\ UNCHANGED <<calls, before, reads, observed>>

NextScanString == EnterString \/ StringStep

SpecScanString == InitScanString /\ [][NextScanString]_vars

\* ------------------------------------------------------------ properties
\* The last call (Scanner::new or Scanner::scan) returned Ok: the caller
\* holds a scanner whose current token that call emitted.
Emitted == pc = "ready" /\ scanner.res = "Ok"

RECURSIVE Utf8(_)
\* The bytes of a text: byte k of codepoint c is <<c, k>>.
Utf8(str) ==
  IF str = <<>> THEN <<>>
  ELSE [k \in 1..Width(Head(str)) |-> <<Head(str), k>>] \o Utf8(Tail(str))

\* The bytes of the text at offsets a .. b-1.
BytesOf(str, a, b) == SubSeq(Utf8(str), a + 1, b)

\* The codepoint of str at byte offset k, None at the end or inside a codepoint.
CharAt(str, k) ==
  IF IsCharBoundary(str, k) /\ k < ByteLen(str)
  THEN str[IndexOf(str, k) + 1]
  ELSE None

\* C1: every token that Scanner::new or Scanner::scan emits has a span inside
\* the source, and its raw_text is exactly the source bytes start .. end-1.
C1_RawTextIsSourceSlice ==
  Emitted =>
    /\ scanner.token.start <= scanner.token.end
    /\ scanner.token.end <= ByteLen(scanner.input)
    /\ Utf8(scanner.token.raw_text) =
         BytesOf(scanner.input, scanner.token.start, scanner.token.end)

\* C1 witness: a token of several codepoints emitted after a multi-byte
\* codepoint, so that its byte offsets and its codepoint indexes differ.
C1_Witness ==
  /\ Emitted
  /\ Len(scanner.token.raw_text) >= 2
  /\ scanner.token.start > 0
  /\ IndexOf(scanner.input, scanner.token.start) # scanner.token.start

\* The spelling of each keyword.
Spelling(kw) ==
  CASE kw = "If" -> <<"i", "f">>
    [] kw = "Else" -> <<"e", "l", "s", "e">>
    [] kw = "End" -> <<"e", "n", "d">>
    [] kw = "Fun" -> <<"f", "u", "n">>

Keywords == {"If", "Else", "End", "Fun"}

\* C2: a token of the identifier/keyword scan is Keyword(k) exactly when its
\* whole raw text is the spelling of k, and Identifier otherwise, whatever
\* follows it in the source (end of input included).
C2_KeywordIffExactSpelling ==
  (Emitted /\ scanner.token.kind.tag \in {"Identifier", "Keyword"}) =>
    /\ \A kw \in Keywords :
         scanner.token.kind = Keyword(kw) <=>
           scanner.token.raw_text = Spelling(kw)
    /\ (\A kw \in Keywords : scanner.token.raw_text # Spelling(kw)) =>
         scanner.token.kind = Identifier

\* The last call reached end of input after the skip phase: the Eof arm of
\* Scanner::scan ran (it set token.start and token.kind and then returned or
\* panicked).
AtEofArm ==
  /\ pc \in {"ready", "aborted"}
  /\ scanner.res \in {"Ok", "Panic"}
  /\ scanner.current_char = None
  /\ scanner.token.kind = Eof
  /\ scanner.token.start = scanner.position

\* C3: a text that is scanned to the end yields an Eof token with
\* start = end = byte length of the source and empty raw text.
C3_EofAtByteLength ==
  AtEofArm =>
    /\ scanner.res = "Ok"
    /\ scanner.token.start = ByteLen(scanner.input)
    /\ scanner.token.end = ByteLen(scanner.input)
    /\ scanner.token.raw_text = <<>>

\* C4: Scanner::new and Scanner::scan return Ok or a ScanError; no source
\* text makes them panic.
C4_NoPanic == pc # "aborted" /\ scanner.res # "Panic"

\* C5: when Scanner::scan returns a ScanError, the current token is exactly
\* what it was before that call.
C5_FailedScanKeepsToken ==
  (pc = "ready" /\ scanner.res = "Err") => scanner.token = before.token

\* C6: once Scanner::scan has returned a ScanError, no later call of
\* Scanner::scan returns Ok.
C6_FailedIsTerminal ==
  (calls > 0 /\ before.res = "Err") => scanner.res # "Ok"

\* The last call was Scanner::scan on a scanner whose current token was Eof.
ScannedAtEof ==
  calls > 0 /\ before.res = "Ok" /\ before.token.kind = Eof

\* C7: once the current token is Eof, every further call of Scanner::scan
\* returns Ok and leaves the same Eof token.
C7_EofIsTerminal ==
  ScannedAtEof =>
    /\ pc = "ready"
    /\ scanner.res = "Ok"
    /\ scanner.token = before.token
    /\ scanner.token.kind = Eof
    /\ scanner.token.raw_text = <<>>
    /\ scanner.token.text.str = <<>>

\* C7 witness: a text of one token, scanned at Eof for the third time.
C7_Witness ==
  /\ ScannedAtEof
  /\ Emitted
  /\ scanner.token.start > 0
  /\ calls >= 4

RECURSIVE LineEnd(_, _)
\* The number of codepoints of str up to and including the first '\n' after
\* the first n (all of them when there is none).
LineEnd(str, n) ==
  IF n >= Len(str) THEN Len(str)
  ELSE IF str[n + 1] = "\n" THEN n + 1
  ELSE LineEnd(str, n + 1)

RECURSIVE SkipEnd(_, _)
\* The number of codepoints of str up to the end of the longest run of
\* whitespace codepoints and complete line comments that starts after the
\* first n.
SkipEnd(str, n) ==
  IF n < Len(str) /\ IsWhitespace(str[n + 1]) THEN SkipEnd(str, n + 1)
  ELSE IF n + 1 < Len(str) /\ str[n + 1] = "/" /\ str[n + 2] = "/"
  THEN SkipEnd(str, LineEnd(str, n + 2))
  ELSE n

\* The offset where the region before the current token starts: 0 for the
\* first token, the end of the token before it otherwise (the cursor position
\* a failed scan left, when the call before this one failed).
GapStart ==
  IF calls = 0 THEN 0
  ELSE IF before.res = "Ok" THEN before.token.end
  ELSE before.position

\* C8: the source between the end of a token and the start of the next token
\* (before the first token, before Eof) is whitespace and complete line
\* comments only, and no token starts inside such a region: the token starts
\* where the longest such run ends.
C8_OnlyWhitespaceAndCommentsSkipped ==
  Emitted =>
    /\ IsCharBoundary(scanner.input, GapStart)
    /\ IsCharBoundary(scanner.input, scanner.token.start)
    /\ IndexOf(scanner.input, scanner.token.start) =
         SkipEnd(scanner.input, IndexOf(scanner.input, GapStart))

\* C8 witness: a token emitted after a line comment that a newline ends.
C8_Witness ==
  /\ Emitted
  /\ scanner.token.kind # Eof
  /\ LET i == IndexOf(scanner.input, GapStart)
         j == IndexOf(scanner.input, scanner.token.start)
     IN /\ j >= i + 3
        /\ scanner.input[i + 1] = "/"
        /\ scanner.input[i + 2] = "/"
        /\ scanner.input[j] = "\n"

\* The symbol pairs of Scanner::scan: leading character, expected second
\* character, single symbol, double symbol.
SymbolPairs ==
  {<<":", ":", "Colon", "DoubleColon">>,
   <<"=", "=", "Eq", "EqEq">>,
   <<"-", ">", "Minus", "Arrow">>}

WithoutSeparators(raw) == SelectSeq(raw, LAMBDA c : c # "_")

\* C10: the decoded text of a Number token is its raw text with every '_'
\* removed, in the original order, and holds digits only.
C10_NumberTextIsDigits ==
  (Emitted /\ scanner.token.kind = Number) =>
    /\ scanner.token.text.str = WithoutSeparators(scanner.token.raw_text)
    /\ \A i \in 1..Len(scanner.token.text.str) :
         scanner.token.text.str[i] \in Digits

\* C10 witness: a Number token with separators between different digits.
C10_Witness ==
  /\ Emitted
  /\ scanner.token.kind = Number
  /\ \E i \in 1..Len(scanner.token.raw_text) : scanner.token.raw_text[i] = "_"
  /\ Len(scanner.token.text.str) >= 2
  /\ scanner.token.text.str[1] # scanner.token.text.str[2]

\* The characters of a String token between its quotes.
Body(raw) == SubSeq(raw, 2, Len(raw) - 1)

HasBackslash(str) == \E i \in 1..Len(str) : str[i] = "\\"

\* C11: the decoded text of a String token without a backslash is its raw
\* text without its first and its last character.
C11_EscapeFreeStringText ==
  (Emitted /\ scanner.token.kind = String
     /\ ~HasBackslash(scanner.token.raw_text)) =>
    /\ Len(scanner.token.raw_text) >= 2
    /\ scanner.token.raw_text[1] = "\""
    /\ scanner.token.raw_text[Len(scanner.token.raw_text)] = "\""
    /\ scanner.token.text.str = Body(scanner.token.raw_text)

\* C11 witness: an escape-free String token with a multi-byte codepoint
\* between its quotes.
C11_Witness ==
  /\ Emitted
  /\ scanner.token.kind = String
  /\ ~HasBackslash(scanner.token.raw_text)
  /\ Len(scanner.token.raw_text) = 4
  /\ scanner.token.raw_text[2] = EACUTE

\* The character each escape sequence of the language stands for.
EscapeValue(ch) ==
  CASE ch = "n" -> "\n"
    [] ch = "r" -> "\r"
    [] ch = "t" -> "\t"
    [] ch = "\\" -> "\\"
    [] ch = "\"" -> "\""
    [] ch = "'" -> "'"
    [] OTHER -> None

RECURSIVE Decode(_)
\* The reference decoding of the characters between the quotes: every
\* two-character escape sequence replaced by its value, the rest kept.
Decode(body) ==
  IF body = <<>> THEN <<>>
  ELSE IF Head(body) = "\\" /\ Len(body) >= 2
  THEN <<EscapeValue(body[2])>> \o Decode(SubSeq(body, 3, Len(body)))
  ELSE <<Head(body)>> \o Decode(Tail(body))

\* C12: the decoded text of a String token with an escape sequence is the
\* reference decoding of the characters between its quotes.
C12_EscapedStringText ==
  (Emitted /\ scanner.token.kind = String
     /\ HasBackslash(scanner.token.raw_text)) =>
    scanner.token.text.str = Decode(Body(scanner.token.raw_text))

\* C12 witness: a String token with a multi-byte codepoint before its first
\* escape and a character between its two escapes.
C12_Witness ==
  /\ Emitted
  /\ scanner.token.kind = String
  /\ scanner.token.raw_text =
       <<"\"", EACUTE, "\\", "n", "n", "\\", "\\", "\"">>
  /\ scanner.token.text.str = <<EACUTE, "\n", "n", "\\">>

\* The last call found a double quote after the skip phase: it scanned a
\* string literal that opens at token.start.
InString ==
  /\ pc \in {"ready", "failed"}
  /\ CharAt(scanner.input, scanner.token.start) = "\""

RECURSIVE StringOutcome(_, _)
\* How the string literal whose content starts after the first n codepoints
\* of str ends: closed by a quote, at a backslash followed by a character
\* that is no escape (at: the number of codepoints before that character),
\* at a backslash that ends the input, or at the end of the input.
StringOutcome(str, n) ==
  IF n >= Len(str) THEN [how |-> "EndOfInput", at |-> Len(str)]
  ELSE IF str[n + 1] = "\"" THEN [how |-> "Closed", at |-> n]
  ELSE IF str[n + 1] = "\\"
  THEN IF n + 1 >= Len(str) THEN [how |-> "EndOfInputInEscape", at |-> Len(str)]
       ELSE IF EscapeValue(str[n + 2]) # None THEN StringOutcome(str, n + 2)
       ELSE [how |-> "BadEscape", at |-> n + 1]
  ELSE StringOutcome(str, n + 1)

\* The outcome of the string literal the last call scanned.
Outcome ==
  StringOutcome(scanner.input, IndexOf(scanner.input, scanner.token.start) + 1)

\* C13: in a string literal, a backslash followed by a character that is no
\* escape makes the call fail with UnexpectedCharacterInEscapeSequence that
\* carries that character and its byte offset in the source.
C13_BadEscapeError ==
  (InString /\ Outcome.how = "BadEscape") =>
    /\ scanner.res = "Err"
    /\ scanner.err.type = "UnexpectedCharacterInEscapeSequence"
    /\ scanner.err.unexpected = scanner.input[Outcome.at + 1]
    /\ scanner.err.offset = OffsetOf(scanner.input, Outcome.at)

\* C13 witness: the call failed at a 2-byte codepoint after a backslash, in a
\* string literal with a 2-byte codepoint before the backslash.
C13_Witness ==
  /\ InString
  /\ Outcome.how = "BadEscape"
  /\ scanner.res = "Err"
  /\ scanner.err.unexpected = EACUTE
  /\ scanner.err.offset > Outcome.at

\* C14: when the input ends inside a string literal and not directly after a
\* backslash, the call fails with UnexpectedEndOfInputInString whose
\* string_start is the offset of the opening quote and whose offset is the
\* byte length of the source.
C14_EndOfInputInStringError ==
  (InString /\ Outcome.how = "EndOfInput") =>
    /\ scanner.res = "Err"
    /\ scanner.err.type = "UnexpectedEndOfInputInString"
    /\ scanner.err.string_start = scanner.token.start
    /\ scanner.err.offset = ByteLen(scanner.input)

\* C15: in a string literal, a backslash that is the last character of the
\* input makes the call fail with UnexpectedEndOfInputInEscapeSequence whose
\* offset is the byte length of the source.
C15_EndOfInputInEscapeError ==
  (InString /\ Outcome.how = "EndOfInputInEscape") =>
    /\ scanner.res = "Err"
    /\ scanner.err.type = "UnexpectedEndOfInputInEscapeSequence"
    /\ scanner.err.offset = ByteLen(scanner.input)

\* The characters a token of the language can start with.
StartsToken(ch) ==
  \/ IsIdentStart(ch)
  \/ IsDigit(ch)
  \/ ch \in {"\"", "/", ":", "=", ";", ",", ".", "+", "*", "-", "\\"}

\* The number of codepoints before the lookahead of the last call after its
\* skip phase.
AfterSkip == SkipEnd(scanner.input, IndexOf(scanner.input, GapStart))

\* The last call found, after its skip phase, a codepoint no token starts with.
AtUnexpected ==
  /\ pc # "start"
  /\ IsCharBoundary(scanner.input, GapStart)
  /\ AfterSkip < Len(scanner.input)
  /\ ~StartsToken(scanner.input[AfterSkip + 1])

\* C16: a lookahead codepoint after the skip phase that no token starts with
\* makes the call fail with UnexpectedCharacter that carries the codepoint and
\* its byte offset in the source, and the codepoint stays the lookahead.
C16_UnexpectedCharacterError ==
  AtUnexpected =>
    /\ scanner.res = "Err"
    /\ scanner.err.type = "UnexpectedCharacter"
    /\ scanner.err.unexpected = scanner.input[AfterSkip + 1]
    /\ scanner.err.offset = OffsetOf(scanner.input, AfterSkip)
    /\ scanner.current_char = scanner.input[AfterSkip + 1]
    /\ scanner.chars = AfterSkip + 1
    /\ scanner.position = OffsetOf(scanner.input, AfterSkip)

\* C16 witness: a scan after the first token failed at a codepoint that
\* follows a skipped multi-byte whitespace codepoint.
C16_Witness ==
  /\ AtUnexpected
  /\ calls >= 1
  /\ before.res = "Ok"
  /\ scanner.res = "Err"
  /\ AfterSkip > IndexOf(scanner.input, GapStart)
  /\ scanner.err.offset > AfterSkip

\* Scanner::new has returned and Scanner::scan has not been called.
Constructed == pc # "start" /\ calls = 0

\* The number of codepoints before the first token of the text.
FirstStart == SkipEnd(scanner.input, 0)

\* C17: when Scanner::new returns Ok the current token is the first token of
\* the text (it starts where the leading whitespace and comments end, and is
\* Eof exactly when nothing follows them) before any call of scan; when it
\* returns a ScanError the caller holds no scanner to call.
C17_NewScansFirstToken ==
  Constructed =>
    /\ scanner.res = "Ok" =>
         /\ pc = "ready"
         /\ scanner.token.start = OffsetOf(scanner.input, FirstStart)
         /\ scanner.token.kind = Eof <=> FirstStart = Len(scanner.input)
         /\ scanner.token.kind # Eof =>
              /\ scanner.token.raw_text # <<>>
              /\ scanner.token.raw_text[1] = scanner.input[FirstStart + 1]
         /\ scanner.token.end =
              scanner.token.start + ByteLen(scanner.token.raw_text)
    /\ scanner.res = "Err" =>
         /\ pc = "failed"
         /\ scanner.err # NoError
         /\ ~ENABLED (Scan \/ Token)

\* C17 witness: Scanner::new returned Ok with a first token that follows a
\* line comment, and scan has not been called.
C17_Witness ==
  /\ Constructed
  /\ scanner.res = "Ok"
  /\ scanner.token.kind # Eof
  /\ FirstStart >= 3
  /\ scanner.input[1] = "/"

\* C18: a call of Scanner::token leaves the scanner (cursor position,
\* lookahead codepoint, current token) unchanged and returns the current
\* token, so repeated calls without a scan between them return equal tokens.
C18_TokenMutatesNothing ==
  [][reads' = reads + 1 =>
       /\ scanner' = scanner
       /\ observed' = scanner.token
       /\ reads >= 1 => observed' = observed]_vars

\* C18 witness: Scanner::token was called twice on a token that is not Eof,
\* with a lookahead codepoint left to scan.
C18_Witness ==
  /\ pc = "ready"
  /\ reads = MaxReads
  /\ observed = scanner.token
  /\ scanner.token.kind # Eof
  /\ scanner.current_char # None

\* The last call returned with the cursor advanced past the last codepoint
\* of a non-empty text.
PastLastCodepoint ==
  /\ pc \in {"ready", "failed"}
  /\ Len(scanner.input) > 0
  /\ scanner.chars = Len(scanner.input)
  /\ scanner.current_char = None

\* C19: when scan_char is advanced past the last codepoint of a non-empty
\* text, position is the byte offset just past that codepoint: the byte
\* length of the source.
C19_PositionPastLastCodepoint ==
  PastLastCodepoint => scanner.position = ByteLen(scanner.input)

RECURSIVE WhitespaceEnd(_, _)
\* The number of codepoints of str up to the end of the run of whitespace
\* codepoints that starts after the first n.
WhitespaceEnd(str, n) ==
  IF n < Len(str) /\ IsWhitespace(str[n + 1]) THEN WhitespaceEnd(str, n + 1)
  ELSE n

\* The number of codepoints before the first codepoint after the whitespace
\* at the cursor of the last call.
AfterWhitespace ==
  WhitespaceEnd(scanner.input, IndexOf(scanner.input, GapStart))

\* After the whitespace at the cursor of the last call comes "//".
CommentAhead ==
  /\ AfterWhitespace + 1 < Len(scanner.input)
  /\ scanner.input[AfterWhitespace + 1] = "/"
  /\ scanner.input[AfterWhitespace + 2] = "/"

IsWordChar(c) == c \in LowerCase \cup UpperCase \cup Digits \cup {"_"}

\* C21: the raw text of an Identifier or Keyword token starts with a letter
\* or an underscore and the codepoint after the token's end, if any, is no
\* letter, digit or underscore; the raw text of a Number token starts with a
\* digit and the codepoint after its end, if any, is no digit or underscore.
C21_MaximalRun ==
  /\ (Emitted /\ scanner.token.kind.tag \in {"Identifier", "Keyword"}) =>
       /\ scanner.token.raw_text # <<>>
       /\ scanner.token.raw_text[1] \in LowerCase \cup UpperCase \cup {"_"}
       /\ \A i \in 1..Len(scanner.token.raw_text) :
            IsWordChar(scanner.token.raw_text[i])
       /\ ~IsWordChar(CharAt(scanner.input, scanner.token.end))
  /\ (Emitted /\ scanner.token.kind = Number) =>
       /\ scanner.token.raw_text # <<>>
       /\ scanner.token.raw_text[1] \in Digits
       /\ \A i \in 1..Len(scanner.token.raw_text) :
            scanner.token.raw_text[i] \in Digits \cup {"_"}
       /\ CharAt(scanner.input, scanner.token.end) \notin Digits \cup {"_"}

\* C21 witness: an Identifier token that a symbol follows, emitted by the
\* scan after the one that emitted a Number token ending in an underscore.
C21_Witness ==
  /\ Emitted
  /\ calls >= 1
  /\ scanner.token.kind = Identifier
  /\ CharAt(scanner.input, scanner.token.end) = "."
  /\ before.res = "Ok"
  /\ before.token.kind = Number
  /\ before.token.raw_text = <<"1", "_">>
  /\ before.token.end = scanner.token.start

\* The iterations of scan_string, taken one at a time, return what
\* Scanner::new returns.
StepwiseAgrees ==
  pc \in {"ready", "failed", "aborted"} =>
    /\ scanner.res = new(scanner.input).res
    /\ scanner.res # "Panic" => scanner = new(scanner.input)

\* The characters of the string literal in progress that the loop of
\* scan_string has consumed: those between the opening quote and the
\* lookahead.
Consumed ==
  SubSeq(scanner.input, IndexOf(scanner.input, scanner.token.start) + 2,
         IF scanner.current_char = None THEN Len(scanner.input)
         ELSE scanner.chars - 1)

\* C22: the decoded text of a String token is a borrowed slice of the source
\* exactly when the literal has no escape sequence and an owned buffer
\* otherwise; during one string scan an owned buffer is built from the source
\* at most once, it exists exactly from the first escape on, and it holds the
\* characters decoded so far.
C22_CopyOnEscape ==
  /\ copies <= 1
  /\ pc = "in_string" =>
       /\ clean_string.some <=> HasBackslash(Consumed)
       /\ clean_string.some <=> copies = 1
       /\ clean_string.some => clean_string.str = Decode(Consumed)
  /\ (Emitted /\ scanner.token.kind = String) =>
       /\ scanner.token.text.owned <=> HasBackslash(scanner.token.raw_text)
       /\ scanner.token.text.owned <=> copies = 1
       /\ ~scanner.token.text.owned =>
            scanner.token.text.str = Body(scanner.token.raw_text)

\* C22 witness: inside a string scan, after a 2-byte codepoint and two escape
\* sequences, with the owned buffer built once.
C22_Witness ==
  /\ pc = "in_string"
  /\ copies = 1
  /\ clean_string = SomeString(<<EACUTE, "\n", "\\">>)
  /\ Consumed = <<EACUTE, "\\", "n", "\\", "\\">>
  /\ scanner.current_char # None

\* C23: a caller that goes on calling Scanner::scan reaches the Eof token or
\* a ScanError after at most one call per codepoint plus one: every call
\* returns, and while the caller has neither, the calls made (Scanner::new
\* and calls of scan) are no more than the codepoints of the text.
C23_ReachesEofOrError ==
  /\ pc # "aborted"
  /\ (pc = "ready" /\ ~Finished) => calls + 1 <= Len(scanner.input)

\* Unless a call panics the caller reaches the Eof token or a ScanError
\* within the bound, and a call that returns a token other than Eof has
\* consumed a codepoint.
ReachesEofOrErrorUnlessPanic ==
  (pc = "ready" /\ ~Finished) =>
    /\ calls + 1 <= Len(scanner.input)
    /\ scanner.token.end > scanner.token.start
    /\ calls >= 1 => scanner.token.start >= before.token.end
    /\ calls < MaxCalls

\* C24: in every state in which the caller holds a scanner, after a
\* successful or a failed call, the current token has
\* start <= end <= byte length of the source; and a token emitted by the scan
\* after a successful call starts at or after the end of the token before.
C24_SpansOrdered ==
  pc = "ready" =>
    /\ scanner.token.start <= scanner.token.end
    /\ scanner.token.end <= ByteLen(scanner.input)
    /\ (Emitted /\ calls >= 1 /\ before.res = "Ok") =>
         before.token.end <= scanner.token.start

\* The spans are ordered after every call that returns Ok.
SpansOrderedWhenEmitted ==
  Emitted =>
    /\ scanner.token.start <= scanner.token.end
    /\ scanner.token.end <= ByteLen(scanner.input)
    /\ (calls >= 1 /\ before.res = "Ok") =>
         before.token.end <= scanner.token.start

\* C25: after every Scanner::new or Scanner::scan that returns Ok the cursor
\* position is the end of the current token and the lookahead is the
\* codepoint of the source at that offset (none at the end of the input): the
\* call has read the skipped whitespace and comments, the token and one
\* codepoint of lookahead, and nothing of what follows.
C25_CursorAtTokenEnd ==
  Emitted =>
    /\ scanner.position = scanner.token.end
    /\ IsCharBoundary(scanner.input, scanner.token.end)
    /\ scanner.current_char = CharAt(scanner.input, scanner.token.end)
    /\ scanner.chars =
         IF scanner.token.end = ByteLen(scanner.input)
         THEN Len(scanner.input)
         ELSE IndexOf(scanner.input, scanner.token.end) + 1
    /\ IsCharBoundary(scanner.input, GapStart) =>
         scanner.token.start = OffsetOf(scanner.input, AfterSkip)
    /\ scanner.token.end =
         scanner.token.start + ByteLen(scanner.token.raw_text)

\* C25 witness: a scan after the first token skipped a multi-byte whitespace
\* codepoint and emitted a token that the first codepoint of the next token
\* follows directly.
C25_Witness ==
  /\ Emitted
  /\ calls >= 1
  /\ before.res = "Ok"
  /\ scanner.token.kind # Eof
  /\ scanner.token.start > before.token.end + 1
  /\ scanner.position = scanner.token.end
  /\ scanner.current_char # None
  /\ StartsToken(scanner.current_char)

====
